---- MODULE Spec2Model ----
(***************************************************************************)
(* A model of ctable-rs (src/src/lib.rs): Column and Table, row ingestion  *)
(* and rendering.  A String is a sequence of Unicode scalar values, each   *)
(* written as a one-character TLA+ string; "\n" is the newline.            *)
(***************************************************************************)
EXTENDS Integers, Sequences, FiniteSets, TLC

\* The three limits of lib.rs:1-3.  The source values are 5000, 5_000_000
\* and 5000; they are scaled down here so that a table at the row ceiling, a
\* cell over the line ceiling and a width over the truncation ceiling are
\* states and inputs the model checker reaches.
MAX_TRUNCATE_WIDTH == 6
MAX_TABLE_ROWS == 2
MAX_CELL_LINES == 2

\* The largest number of columns the caller builds.
MaxCols == 2

NL == "\n"

Justification == {"Left", "Right"}

\* ---------------------------------------------------------------- inputs
\* The (name, truncate_at) pairs offered to Column::new: an empty name, a
\* width over the ceiling, a plain name without truncation, a name longer
\* than the requested width, a two-line non-ASCII name narrower than 3, and
\* a name of more lines than MAX_CELL_LINES under the widest truncation.
ColumnInputs ==
  { << <<>>, 0 >>,
    << <<"n", "a", "m", "e">>, MAX_TRUNCATE_WIDTH + 1 >>,
    << <<"n", "a", "m", "e">>, 0 >>,
    << <<"n", "a", "m", "e">>, 1 >>,
    << <<"é", NL, "b">>, 1 >>,
    << <<NL, NL>>, MAX_TRUNCATE_WIDTH >> }

\* Cell values offered to add_row: one non-ASCII character, two lines of
\* which the first is longer than every truncation width, and a value of
\* more lines than MAX_CELL_LINES.
Values ==
  { <<"é">>,
    <<"a", "b", "c", "d", "e", "f", "g", NL, "x", "y", "z">>,
    <<NL, NL>> }

RECURSIVE SeqsOfLen(_, _)
SeqsOfLen(S, n) ==
  IF n = 0 THEN { <<>> }
  ELSE { Append(s, x) : s \in SeqsOfLen(S, n - 1), x \in S }

\* Rows offered to add_row: every row of one or two values, and three rows of
\* three values (too long for a table of two columns), the last of them with
\* long cells before a final cell of too many lines.
LongValue == <<"a", "b", "c", "d", "e", "f", "g", NL, "x", "y", "z">>

RowInputs ==
  SeqsOfLen(Values, 1) \cup SeqsOfLen(Values, 2) \cup
  { << <<"é">>, LongValue, <<"é">> >>,
    << LongValue, <<"é">>, LongValue >>,
    << LongValue, LongValue, <<NL, NL>> >> }

\* ---------------------------------------------------------------- strings
\* str::chars().count(): the number of Unicode scalar values.
CharCount(s) == Len(s)

\* " ".repeat(n), "-".repeat(n)
Repeat(c, n) == [i \in 1..n |-> c]

\* chars().take(n).collect()
Take(s, n) == SubSeq(s, 1, IF n < Len(s) THEN n ELSE Len(s))

\* usize::saturating_sub
SaturatingSub(a, b) == IF a > b THEN a - b ELSE 0

\* usize::max
Max(a, b) == IF a >= b THEN a ELSE b

\* str::split('\n'): the pieces between newlines; never empty.
RECURSIVE Split(_)
Split(s) ==
  IF \A i \in 1..Len(s) : s[i] # NL THEN << s >>
  ELSE LET i == CHOOSE k \in 1..Len(s) :
                  s[k] = NL /\ \A m \in 1..(k - 1) : s[m] # NL
       IN  << SubSeq(s, 1, i - 1) >> \o Split(SubSeq(s, i + 1, Len(s)))

\* [String]::join(sep)
RECURSIVE Join(_, _)
Join(cells, sep) ==
  IF cells = <<>> THEN <<>>
  ELSE IF Len(cells) = 1 THEN cells[1]
  ELSE cells[1] \o sep \o Join(Tail(cells), sep)

\* The decimal digits of n, as format!("{}", n) writes them.
Digit(d) == <<"0", "1", "2", "3", "4", "5", "6", "7", "8", "9">>[d + 1]

RECURSIVE Decimal(_)
Decimal(n) == IF n < 10 THEN << Digit(n) >> ELSE Decimal(n \div 10) \o << Digit(n % 10) >>

Ellipsis == <<".", ".", ".">>

\* The message of format_cell's error.
TooManyLinesMsg(n) ==
  <<"C", "o", "l", "u", "m", "n", ":", ":", "f", "o", "r", "m", "a", "t", "_", "c", "e", "l", "l", ":", " ", "n", "u", "m", "b", "e", "r", " ", "o", "f", " ", "l", "i", "n", "e", "s", " ", "(">>
  \o Decimal(n) \o
  <<")", " ", "e", "x", "c", "e", "e", "d", "s", " ", "m", "a", "x", "i", "m", "u", "m", " ", "a", "l", "l", "o", "w", "e", "d", " ", "(">>
  \o Decimal(MAX_CELL_LINES) \o <<")">>

\* ---------------------------------------------------------------- Column
\* Column::new.  ok = FALSE carries the error kind in err.
NoColumn == [name |-> <<>>, truncate_at |-> 0, justification |-> "Left", max_length |-> 0]

Column_new(name, truncate_at, justification) ==
  IF name = <<>> THEN [ok |-> FALSE, err |-> "InvalidName", col |-> NoColumn]
  ELSE IF truncate_at > MAX_TRUNCATE_WIDTH
  THEN [ok |-> FALSE, err |-> "TruncationTooWide", col |-> NoColumn]
  ELSE LET name_len == CharCount(name)
           effective_truncate ==
             IF truncate_at > 0 THEN Max(Max(truncate_at, 3), name_len)
             ELSE truncate_at
       IN  [ok |-> TRUE, err |-> "Ok",
            col |-> [name |-> name, truncate_at |-> effective_truncate,
                     justification |-> justification, max_length |-> name_len]]

\* Column::set_justification
set_justification(col, j) == [col EXCEPT !.justification = j]

\* A variant of update_max_length that measures the whole value instead of
\* each of its lines.
update_max_length_Whole(col, value) ==
  [col EXCEPT !.max_length =
     IF CharCount(value) > col.max_length THEN CharCount(value) ELSE col.max_length]

\* Column::update_max_length: the loop over the lines of value.
RECURSIVE UpdateLines(_, _)
UpdateLines(max_length, lines) ==
  IF lines = <<>> THEN max_length
  ELSE LET len == CharCount(Head(lines))
       IN  UpdateLines(IF len > max_length THEN len ELSE max_length, Tail(lines))

update_max_length(col, value) ==
  [col EXCEPT !.max_length = UpdateLines(col.max_length, Split(value))]

\* The rendered width of a column: truncate_at if nonzero, else max_length.
Width(col) == IF col.truncate_at > 0 THEN col.truncate_at ELSE col.max_length

\* A variant of the closure that keeps truncate_at - 2 characters before the
\* ellipsis.
FormatLine_LongCut(col, line) ==
  LET result ==
        IF col.truncate_at > 0 /\ CharCount(line) > col.truncate_at
        THEN Take(line, SaturatingSub(col.truncate_at, 2)) \o Ellipsis
        ELSE line
  IN  IF CharCount(result) < Width(col)
      THEN LET padding == Repeat(" ", Width(col) - CharCount(result))
           IN  IF col.justification = "Left" THEN result \o padding
               ELSE padding \o result
      ELSE result

\* A variant of the closure with the two arms of the match exchanged.
FormatLine_Swapped(col, line) ==
  LET result ==
        IF col.truncate_at > 0 /\ CharCount(line) > col.truncate_at
        THEN Take(line, SaturatingSub(col.truncate_at, 3)) \o Ellipsis
        ELSE line
  IN  IF CharCount(result) < Width(col)
      THEN LET padding == Repeat(" ", Width(col) - CharCount(result))
           IN  IF col.justification = "Left" THEN padding \o result
               ELSE result \o padding
      ELSE result

\* The closure format_cell maps over the lines of a cell.
FormatLine(col, line) ==
  LET value_len == CharCount(line)
      result ==
        IF col.truncate_at > 0 /\ value_len > col.truncate_at
        THEN Take(line, SaturatingSub(col.truncate_at, 3)) \o Ellipsis
        ELSE line
      width == Width(col)
  IN  IF CharCount(result) < width
      THEN LET padding == Repeat(" ", width - CharCount(result))
           IN  IF col.justification = "Left" THEN result \o padding
               ELSE padding \o result
      ELSE result

\* Column::format_cell
format_cell(col, cell_value) ==
  LET lines == Split(cell_value)
  IN  IF Len(lines) > MAX_CELL_LINES
      THEN [ok |-> FALSE, err |-> TooManyLinesMsg(Len(lines)), lines |-> <<>>]
      ELSE [ok |-> TRUE, err |-> <<>>,
            lines |-> [i \in 1..Len(lines) |-> FormatLine(col, lines[i])]]

\* A variant of format_empty that returns the empty string.
format_empty_Blank(col) == <<>>

\* Column::format_empty
format_empty(col) == Repeat(" ", Width(col))

\* ---------------------------------------------------------------- Table
\* columns: the Vec<Column> the caller builds, and Table.columns once
\*          Table::new has taken it;
\* rows:    Table.rows;
\* built:   whether Table::new has succeeded;
\* lastCall: the last operation called, its arguments and what it returned.
VARIABLES columns, rows, built, lastCall

vars == <<columns, rows, built, lastCall>>

\* Table::new
Table_new(cols) ==
  IF cols = <<>> THEN [ok |-> FALSE, err |-> "NoColumns"]
  ELSE [ok |-> TRUE, err |-> "Ok"]

\* The validation loop of add_row: some cell has too many lines.
AnyTooManyLines(row) ==
  \E i \in 1..Len(row) : Len(Split(row[i])) > MAX_CELL_LINES

\* The loop of add_row over columns.iter_mut().zip(row.iter()).
UpdateColumns(cols, row) ==
  [i \in 1..Len(cols) |->
     IF i <= Len(row) THEN update_max_length(cols[i], row[i]) ELSE cols[i]]

\* A variant of add_row that updates the column widths cell by cell while it
\* validates, so that a late failure leaves earlier columns widened.
add_row_UpdateFirst(cols, rws, row) ==
  IF Len(row) # Len(cols)
  THEN [err |-> "ColumnCountMismatch", columns |-> cols, rows |-> rws]
  ELSE IF Len(rws) >= MAX_TABLE_ROWS
  THEN [err |-> "RowLimitExceeded", columns |-> cols, rows |-> rws]
  ELSE IF AnyTooManyLines(row)
  THEN LET bad == CHOOSE i \in 1..Len(row) :
                    /\ Len(Split(row[i])) > MAX_CELL_LINES
                    /\ \A m \in 1..(i - 1) : Len(Split(row[m])) <= MAX_CELL_LINES
       IN  [err |-> "TooManyLines",
            columns |-> UpdateColumns(cols, SubSeq(row, 1, bad - 1)),
            rows |-> rws]
  ELSE [err |-> "Ok", columns |-> UpdateColumns(cols, row), rows |-> Append(rws, row)]

\* A variant of add_row without the check of the row count.
add_row_NoLength(cols, rws, row) ==
  IF Len(rws) >= MAX_TABLE_ROWS
  THEN [err |-> "RowLimitExceeded", columns |-> cols, rows |-> rws]
  ELSE IF AnyTooManyLines(row)
  THEN [err |-> "TooManyLines", columns |-> cols, rows |-> rws]
  ELSE [err |-> "Ok", columns |-> UpdateColumns(cols, row), rows |-> Append(rws, row)]

\* A variant of add_row that checks the row ceiling before the row length.
add_row_LimitFirst(cols, rws, row) ==
  IF Len(rws) >= MAX_TABLE_ROWS
  THEN [err |-> "RowLimitExceeded", columns |-> cols, rows |-> rws]
  ELSE IF Len(row) # Len(cols)
  THEN [err |-> "ColumnCountMismatch", columns |-> cols, rows |-> rws]
  ELSE IF AnyTooManyLines(row)
  THEN [err |-> "TooManyLines", columns |-> cols, rows |-> rws]
  ELSE [err |-> "Ok", columns |-> UpdateColumns(cols, row), rows |-> Append(rws, row)]

\* Table::add_row: the result and the table after the call.
add_row(cols, rws, row) ==
  IF Len(row) # Len(cols)
  THEN [err |-> "ColumnCountMismatch", columns |-> cols, rows |-> rws]
  ELSE IF Len(rws) >= MAX_TABLE_ROWS
  THEN [err |-> "RowLimitExceeded", columns |-> cols, rows |-> rws]
  ELSE IF AnyTooManyLines(row)
  THEN [err |-> "TooManyLines", columns |-> cols, rows |-> rws]
  ELSE [err |-> "Ok", columns |-> UpdateColumns(cols, row), rows |-> Append(rws, row)]

\* ---------------------------------------------------------------- Display
\* The header cells: format_cell(name), its first line or the error message.
HeaderCells(cols) ==
  [i \in 1..Len(cols) |->
     LET r == format_cell(cols[i], cols[i].name)
     IN  IF r.ok THEN r.lines[1] ELSE r.err]

\* The separator cells.
SeparatorCells(cols) == [i \in 1..Len(cols) |-> Repeat("-", Width(cols[i]))]

\* formatted_cells of one row: per column the formatted lines, or the error
\* message as the only line.
FormattedCells(cols, row) ==
  [i \in 1..(IF Len(cols) <= Len(row) THEN Len(cols) ELSE Len(row)) |->
     LET r == format_cell(cols[i], row[i])
     IN  IF r.ok THEN r.lines ELSE << r.err >>]

RECURSIVE MaxOf(_)
MaxOf(ns) == IF ns = <<>> THEN 0 ELSE Max(Head(ns), MaxOf(Tail(ns)))

\* max_lines of one row.
MaxLines(formatted_cells) ==
  IF formatted_cells = <<>> THEN 1
  ELSE MaxOf([i \in 1..Len(formatted_cells) |-> Len(formatted_cells[i])])

\* The cells of the output lines of one row.
RowLines(cols, row) ==
  LET formatted_cells == FormattedCells(cols, row)
      max_lines == MaxLines(formatted_cells)
  IN  [line_idx \in 1..max_lines |->
         [i \in 1..Len(formatted_cells) |->
            IF line_idx <= Len(formatted_cells[i])
            THEN formatted_cells[i][line_idx]
            ELSE format_empty(cols[i])]]

RECURSIVE AllRowLines(_, _)
AllRowLines(cols, rws) ==
  IF rws = <<>> THEN <<>>
  ELSE RowLines(cols, Head(rws)) \o AllRowLines(cols, Tail(rws))

\* Display::fmt: the cell vectors it builds, one per output line (lines), and
\* the lines it writes, each vector joined by a single space (text).
fmt(cols, rws) ==
  IF cols = <<>> THEN [lines |-> <<>>, text |-> <<>>]
  ELSE LET lines == << HeaderCells(cols), SeparatorCells(cols) >>
                    \o AllRowLines(cols, rws)
       IN  [lines |-> lines,
            text |-> [k \in 1..Len(lines) |-> Join(lines[k], <<" ">>)]]

\* ---------------------------------------------------------------- actions
Init ==
  /\ columns = <<>>
  /\ rows = <<>>
  /\ built = FALSE
  /\ lastCall = [op |-> "none", arg |-> <<>>, res |-> "Ok"]

\* The caller makes a column and, when Column::new succeeds, pushes it.
ColumnNew ==
  \E in \in ColumnInputs, j \in Justification :
    /\ ~built
    /\ Len(columns) < MaxCols
    /\ LET r == Column_new(in[1], in[2], j)
       IN  /\ columns' = IF r.ok THEN Append(columns, r.col) ELSE columns
           /\ lastCall' = [op |-> "Column::new", arg |-> <<in[1], in[2], j>>, res |-> r.err]
    /\ UNCHANGED <<rows, built>>

\* The caller changes the justification of a column it still owns.
SetJustification ==
  \E i \in 1..Len(columns), j \in Justification :
    /\ ~built
    /\ columns' = [columns EXCEPT ![i] = set_justification(columns[i], j)]
    /\ lastCall' = [op |-> "set_justification", arg |-> <<i, j>>, res |-> "Ok"]
    /\ UNCHANGED <<rows, built>>

\* The caller hands its columns to Table::new.
TableNew ==
  /\ ~built
  /\ LET r == Table_new(columns)
     IN  /\ built' = r.ok
         /\ lastCall' = [op |-> "Table::new", arg |-> <<>>, res |-> r.err]
  /\ rows' = <<>>
  /\ UNCHANGED columns

AddRow ==
  \E row \in RowInputs :
    /\ built
    /\ LET r == add_row(columns, rows, row)
       IN  /\ columns' = r.columns
           /\ rows' = r.rows
           /\ lastCall' = [op |-> "add_row", arg |-> row, res |-> r.err]
    /\ UNCHANGED built

Fmt ==
  /\ built
  /\ lastCall' = [op |-> "fmt", arg |-> <<>>, res |-> fmt(columns, rows)]
  /\ UNCHANGED <<columns, rows, built>>

Next == ColumnNew \/ SetJustification \/ TableNew \/ AddRow \/ Fmt

Spec == Init /\ [][Next]_vars

\* ---------------------------------------------------------------- claims
\* Vocabulary of the properties below, written from the specification.
IsFmt == lastCall.op = "fmt"

IsAddRow == lastCall.op = "add_row"

\* The rendered width of a column.
RenderedWidth(col) == IF col.truncate_at > 0 THEN col.truncate_at ELSE col.max_length

\* The number of lines of a text: one more than its newlines.
LineCount(v) == Cardinality({ i \in 1..Len(v) : v[i] = NL }) + 1

AllSpaces(s) == \A i \in 1..Len(s) : s[i] = " "

\* s occurs in cell as a contiguous run.
Contains(cell, s) ==
  \E k \in 0..(Len(cell) - Len(s)) : SubSeq(cell, k + 1, k + Len(s)) = s

\* The number of output lines of a row: its largest cell line count.
RowHeight(row) ==
  CHOOSE h \in { LineCount(row[i]) : i \in 1..Len(row) } :
    \A i \in 1..Len(row) : LineCount(row[i]) <= h

\* The index of the output line before the first line of row r.
RECURSIVE RowStart(_)
RowStart(r) == IF r = 1 THEN 2 ELSE RowStart(r - 1) + RowHeight(rows[r - 1])

\* The cell the rendering shows for line k of value v in column col, when the
\* value has such a line.
ShownCell(r, i, k) == lastCall.res.lines[RowStart(r) + k][i]

\* The largest of a non-empty set of numbers.
SetMax(S) == CHOOSE m \in S : \A x \in S : x <= m

\* C1: every cell line rendering emits for a column (header cell, data cell
\* line, empty fill) has exactly the column's rendered width in characters.
C1_CellWidth ==
  IsFmt =>
    \A k \in (1..Len(lastCall.res.lines)) \ {2} :
      \A i \in 1..Len(columns) :
        Len(lastCall.res.lines[k][i]) = RenderedWidth(columns[i])

\* C2: with truncate_at = w > 0, a line longer than w is rendered as its
\* first w - 3 characters followed by "...", w characters in all; a line of
\* at most w characters keeps all its characters and gains only spaces.
C2_Ellipsis ==
  IsFmt =>
    \A r \in 1..Len(rows) : \A i \in 1..Len(columns) :
      LET w == columns[i].truncate_at
          ls == Split(rows[r][i])
      IN  w > 0 =>
            \A k \in 1..Len(ls) :
              LET cell == ShownCell(r, i, k)
              IN  IF Len(ls[k]) > w
                  THEN /\ cell = SubSeq(ls[k], 1, w - 3) \o <<".", ".", ".">>
                       /\ Len(cell) = w
                       /\ SubSeq(cell, w - 2, w) = <<".", ".", ".">>
                  ELSE /\ Contains(cell, ls[k])
                       /\ Len(cell) = w
                       /\ \/ AllSpaces(SubSeq(cell, Len(ls[k]) + 1, Len(cell)))
                          \/ AllSpaces(SubSeq(cell, 1, Len(cell) - Len(ls[k])))

\* A long line was truncated in a rendering, and a short one padded.
C2_Witness ==
  /\ IsFmt
  /\ \E r \in 1..Len(rows) : \E i \in 1..Len(columns) :
       /\ columns[i].truncate_at > 3
       /\ Len(Split(rows[r][i])[1]) > columns[i].truncate_at
       /\ Len(Split(rows[r][i])) = 2
       /\ Len(Split(rows[r][i])[2]) < columns[i].truncate_at

\* C3: a successful Column::new(name, t, j) stores truncate_at = max(t, 3, n)
\* when t > 0 and 0 when t = 0, and the rendered header cell contains the
\* name.
C3_HeaderShowsName ==
  /\ (lastCall.op = "Column::new" /\ lastCall.res = "Ok") =>
       LET c == columns[Len(columns)]
           t == lastCall.arg[2]
           n == Len(lastCall.arg[1])
       IN  c.truncate_at = IF t > 0 THEN SetMax({t, 3, n}) ELSE 0
  /\ IsFmt =>
       \A i \in 1..Len(columns) :
         Contains(lastCall.res.lines[1][i], columns[i].name)

\* C4: an add_row call that returns an error leaves the rows and every
\* column as they were.
C4_FailedAddRowChangesNothing ==
  [][(lastCall'.op = "add_row" /\ lastCall'.res # "Ok")
       => (columns' = columns /\ rows' = rows /\ built' = built)]_vars

\* add_row refused a row whose last cell has too many lines and whose first
\* cell is wider than its column.
C4_Witness ==
  /\ IsAddRow
  /\ lastCall.res = "TooManyLines"
  /\ Len(lastCall.arg) = Len(columns)
  /\ Len(columns) = 2
  /\ LineCount(lastCall.arg[2]) > MAX_CELL_LINES
  /\ LineCount(lastCall.arg[1]) <= MAX_CELL_LINES
  /\ Len(Split(lastCall.arg[1])[1]) > columns[1].max_length

\* C5: the table is well-formed: every row has one value per column, there
\* are at most MAX_TABLE_ROWS rows, every stored cell has at most
\* MAX_CELL_LINES lines, and the columns are non-empty and keep their number.
WellFormed ==
  /\ Len(columns) > 0
  /\ Len(rows) <= MAX_TABLE_ROWS
  /\ \A r \in 1..Len(rows) :
       /\ Len(rows[r]) = Len(columns)
       /\ \A i \in 1..Len(rows[r]) : LineCount(rows[r][i]) <= MAX_CELL_LINES

C5_WellFormed ==
  /\ [](built => WellFormed)
  /\ [][built => (built' /\ Len(columns') = Len(columns))]_vars

\* A table at the row ceiling has just refused another row.
C5_Witness ==
  /\ built
  /\ Len(rows) = MAX_TABLE_ROWS
  /\ Len(columns) = 2
  /\ IsAddRow
  /\ lastCall.res = "RowLimitExceeded"

\* C6: after the header and the separator the rows follow in insertion
\* order; row r takes RowHeight(r) output lines, and line k of it joins with
\* single spaces, per column, the k-th formatted line of the cell if it has
\* one and otherwise spaces of the column's rendered width.
RECURSIVE JoinSpace(_)
JoinSpace(cells) ==
  IF Len(cells) = 1 THEN cells[1]
  ELSE cells[1] \o <<" ">> \o JoinSpace(Tail(cells))

C6_RowLayout ==
  IsFmt =>
    /\ Len(lastCall.res.text) =
         IF rows = <<>> THEN 2
         ELSE RowStart(Len(rows)) + RowHeight(rows[Len(rows)])
    /\ \A r \in 1..Len(rows) : \A k \in 1..RowHeight(rows[r]) :
         lastCall.res.text[RowStart(r) + k] =
           JoinSpace([i \in 1..Len(columns) |->
             IF k <= LineCount(rows[r][i])
             THEN format_cell(columns[i], rows[r][i]).lines[k]
             ELSE [n \in 1..RenderedWidth(columns[i]) |-> " "]])

\* A rendering of two different rows, the first with a two-line cell beside
\* a one-line cell.
C6_Witness ==
  /\ IsFmt
  /\ Len(rows) = 2
  /\ Len(columns) = 2
  /\ rows[1] # rows[2]
  /\ LineCount(rows[1][1]) = 2
  /\ LineCount(rows[1][2]) = 1

\* C7: a padded line of a Left column is the text followed by spaces only,
\* of a Right column spaces only followed by the text; set_justification
\* changes the justification of its column and nothing else.
Padded(col, line, cell) ==
  LET text == IF col.truncate_at > 0 /\ Len(line) > col.truncate_at
              THEN SubSeq(line, 1, col.truncate_at - 3) \o <<".", ".", ".">>
              ELSE line
      w == RenderedWidth(col)
  IN  Len(text) < w =>
        IF col.justification = "Left"
        THEN /\ SubSeq(cell, 1, Len(text)) = text
             /\ AllSpaces(SubSeq(cell, Len(text) + 1, Len(cell)))
        ELSE /\ SubSeq(cell, Len(cell) - Len(text) + 1, Len(cell)) = text
             /\ AllSpaces(SubSeq(cell, 1, Len(cell) - Len(text)))

C7_Justification ==
  /\ [](IsFmt =>
         \A r \in 1..Len(rows) : \A i \in 1..Len(columns) :
           \A k \in 1..LineCount(rows[r][i]) :
             Padded(columns[i], Split(rows[r][i])[k], ShownCell(r, i, k)))
  /\ [][lastCall'.op = "set_justification" =>
          /\ Len(columns') = Len(columns)
          /\ rows' = rows /\ built' = built
          /\ \A i \in 1..Len(columns) :
               /\ columns'[i].name = columns[i].name
               /\ columns'[i].truncate_at = columns[i].truncate_at
               /\ columns'[i].max_length = columns[i].max_length
               /\ columns'[i].justification =
                    IF i = lastCall'.arg[1] THEN lastCall'.arg[2]
                    ELSE columns[i].justification]_vars

\* A rendering of padded lines in a Right column beside a Left column.
C7_Witness ==
  /\ IsFmt
  /\ Len(columns) = 2
  /\ columns[1].justification = "Right"
  /\ columns[2].justification = "Left"
  /\ \E r \in 1..Len(rows) :
       /\ Len(Split(rows[r][1])[1]) < RenderedWidth(columns[1])
       /\ Len(Split(rows[r][1])[1]) > 0
       /\ Len(Split(rows[r][2])[1]) < RenderedWidth(columns[2])
       /\ Len(Split(rows[r][2])[1]) > 0

\* C8: add_row answers ColumnCountMismatch first, then RowLimitExceeded,
\* then TooManyLines; otherwise it succeeds, the row is stored last and the
\* earlier rows stay.
C8_AddRowOutcome ==
  [][lastCall'.op = "add_row" =>
       LET row == lastCall'.arg
       IN  IF Len(row) # Len(columns)
           THEN lastCall'.res = "ColumnCountMismatch"
           ELSE IF Len(rows) >= MAX_TABLE_ROWS
           THEN lastCall'.res = "RowLimitExceeded"
           ELSE IF \E i \in 1..Len(row) : LineCount(row[i]) > MAX_CELL_LINES
           THEN lastCall'.res = "TooManyLines"
           ELSE /\ lastCall'.res = "Ok"
                /\ Len(rows') = Len(rows) + 1
                /\ rows'[Len(rows')] = row
                /\ SubSeq(rows', 1, Len(rows)) = rows]_vars

\* A full table refused a row of the wrong length whose cell has too many
\* lines, with ColumnCountMismatch.
C8_Witness ==
  /\ IsAddRow
  /\ Len(rows) = MAX_TABLE_ROWS
  /\ Len(lastCall.arg) # Len(columns)
  /\ \E i \in 1..Len(lastCall.arg) : LineCount(lastCall.arg[i]) > MAX_CELL_LINES
  /\ lastCall.res = "ColumnCountMismatch"

\* C9: a column's max_length is the largest character count among its name
\* and every line of every value stored in it; it never decreases and is at
\* least the character count of the name.
LineLens(v) == { Len(Split(v)[k]) : k \in 1..Len(Split(v)) }

C9_MaxLength ==
  /\ [](\A i \in 1..Len(columns) :
          /\ columns[i].max_length =
               SetMax({ Len(columns[i].name) } \cup
                      UNION { LineLens(rows[r][i]) : r \in 1..Len(rows) })
          /\ columns[i].max_length >= Len(columns[i].name))
  /\ [][\A i \in 1..Len(columns) :
          i <= Len(columns') /\ columns'[i].max_length >= columns[i].max_length]_vars

\* A column's max_length grew past its name with a multi-line value, then
\* a shorter value was stored.
C9_Witness ==
  /\ Len(rows) = 2
  /\ \E i \in 1..Len(columns) :
       /\ columns[i].max_length > Len(columns[i].name)
       /\ LineCount(rows[1][i]) = 2
       /\ LineCount(rows[2][i]) = 1
       /\ Len(rows[2][i]) < Len(columns[i].name)

\* C10: no format_cell call of a rendering, for a header or for a stored
\* cell, fails with too many lines.
C10_NoFormatError ==
  IsFmt =>
    /\ \A i \in 1..Len(columns) : format_cell(columns[i], columns[i].name).ok
    /\ \A r \in 1..Len(rows) : \A i \in 1..Len(columns) :
         format_cell(columns[i], rows[r][i]).ok

====
